---------------------------- MODULE Spec2Model ----------------------------
(***************************************************************************)
(* A model of homework.py: a poller that fetches homework statuses from    *)
(* an HTTP API, validates the response, maps statuses to verdict texts and *)
(* sends them to a Telegram chat, forever, with a sleep between polls.     *)
(*                                                                         *)
(* Strings of the program that are written in Cyrillic are transliterated  *)
(* to ASCII letter by letter; the structure of every formatted message is  *)
(* the one of the source.                                                  *)
(***************************************************************************)
EXTENDS Naturals, Sequences, FiniteSets, TLC

\* The longest 'homeworks' list the modelled API serves.
MaxLen == 2

\* homework.py:28
RETRY_PERIOD == 600

\* Python's None (what dict.get returns for an absent key).  It is distinct
\* from every string of Names and Statuses below.
None == "<None>"

(***************************************************************************)
(* Exceptions.  An exception object is its class and str(exception).       *)
(***************************************************************************)
NoExc == [type |-> "", msg |-> ""]

Exc(type, msg) == [type |-> type, msg |-> msg]

\* exceptions.py is not among the sources: ApiRequestError is an ordinary
\* error class (spec 7: it is "uniformly caught" at the iteration boundary).
ApiRequestErrorBase == "Exception"

\* The direct base class of every exception class the program meets.
Base(cls) ==
    CASE cls = "ApiRequestError"  -> ApiRequestErrorBase
      [] cls = "TypeError"        -> "Exception"
      [] cls = "ValueError"       -> "Exception"
      [] cls = "KeyError"         -> "LookupError"
      [] cls = "LookupError"      -> "Exception"
      [] cls = "JSONDecodeError"  -> "ValueError"
      [] cls = "ConnectionError"  -> "RequestException"
      [] cls = "Timeout"          -> "RequestException"
      [] cls = "RequestException" -> "OSError"
      [] cls = "OSError"          -> "Exception"
      [] cls = "NetworkError"     -> "TelegramError"
      [] cls = "TelegramError"    -> "Exception"
      [] cls = "Exception"        -> "BaseException"
      [] OTHER                    -> "BaseException"

RECURSIVE IsSubclass(_, _)
IsSubclass(cls, of) ==
    IF cls = of THEN TRUE
    ELSE IF cls = "BaseException" THEN FALSE
    ELSE IsSubclass(Base(cls), of)

\* What Python does with "except <clause>" when exception exc arrives: a
\* clause that is a class matches by subclass; a clause that is not a class
\* (an instance) makes the matching itself raise TypeError.
ExceptMatch(clause, exc) ==
    IF ~clause.is_class THEN "TypeError"
    ELSE IF IsSubclass(exc.type, clause.cls) THEN "match"
    ELSE "nomatch"

CatchingNonClass ==
    Exc("TypeError",
        "catching classes that do not inherit from BaseException is not allowed")

(***************************************************************************)
(* Events: the calls the program makes to the outside world and to the     *)
(* logging module, in order.                                               *)
(***************************************************************************)
Event(ev, level, text, result, n) ==
    [ev |-> ev, level |-> level, text |-> text, result |-> result, n |-> n]

\* A call of the logging module.
LogEv(level, text) == Event("log", level, text, "", 0)

\* One call of bot.send_message (a notification attempt) and how it ended:
\* "ok", or the class of the exception it raised.
SendEv(text, result) == Event("send", "", text, result, 0)

\* A request that does not carry the cursor.
GetEv_no_cursor(from_date, result) == Event("get", "", "", result, 0)

\* One call of requests.get with params {'from_date': from_date}, and how it
\* ended: "response", or the class of the exception it raised.
GetEv(from_date, result) == Event("get", "", "", result, from_date)

\* One call of time.sleep(seconds).
SleepEv(seconds) == Event("sleep", "", "", "", seconds)

\* The outcome of a call: the exception it raised (NoExc: it returned), the
\* value it returned and the events it produced.
Outcome(raised, value, events) ==
    [raised |-> raised, value |-> value, events |-> events]

\* The ways one bot.send_message call ends inside a run of main().
Deliveries == {"ok", "NetworkError"}

\* The ways it ends in a single call of send_message.
SendOutcomes == Deliveries \cup {"TelegramError", "Timeout", "ValueError"}

(***************************************************************************)
(* Data: homework records, API responses, transport outcomes.              *)
(***************************************************************************)
Names == {"X", "Y"}

Statuses == {"approved", "reviewing", "rejected", "test"}

RecordKeys == {"homework_name", "status", "id"}

\* A homework record is a mapping from some of RecordKeys to strings.
ValuesOf(key) ==
    CASE key = "homework_name" -> Names
      [] key = "status"        -> Statuses
      [] OTHER                 -> {"7"}

Homeworks ==
    UNION { { hw \in [K -> Names \cup Statuses \cup {"7"}] :
                \A k \in K : hw[k] \in ValuesOf(k) } : K \in SUBSET RecordKeys }

\* dict.get(key): the value, or None when the key is absent.
Get(d, key) == IF key \in DOMAIN d THEN d[key] ELSE None

\* The records the modelled API serves in lists.
ApiHomeworks ==
    { hw \in Homeworks :
        /\ "id" \notin DOMAIN hw
        /\ Get(hw, "homework_name") \in {None, "X"}
        /\ Get(hw, "status") \in {None, "approved", "rejected", "test"} }

SeqsUpTo(S, n) == UNION { [1..k -> S] : k \in 0..n }

\* The value under 'homeworks': a list of records, a number, or nothing.
HwList(items) == [type |-> "list", items |-> items]

HwInt == [type |-> "int", items |-> <<>>]

HwNone == [type |-> "NoneType", items |-> <<>>]

\* A decoded JSON body: a dict with some keys, or a list.
JsonDict(keys, hws) == [type |-> "dict", keys |-> keys, homeworks |-> hws]

JsonList == [type |-> "list", keys |-> {}, homeworks |-> HwNone]

\* response.get('homeworks')
GetHomeworks(response) ==
    IF "homeworks" \in response.keys THEN response.homeworks ELSE HwNone

HomeworkLists(S) == { HwList(s) : s \in SeqsUpTo(S, MaxLen) }

JsonValues(S) ==
    {JsonList, JsonDict({"error"}, HwNone), JsonDict({"homeworks"}, HwInt)}
    \cup { JsonDict({"homeworks"}, l) : l \in HomeworkLists(S) }

\* What requests.get does: it raises, or it returns a response with a
\* status code and a body that decodes to JSON or does not.
NetworkFailure(cls) ==
    [raised |-> Exc(cls, "testing"), status_code |-> 0, decodes |-> FALSE,
     json |-> JsonList]

HttpResponse(code, decodes, json) ==
    [raised |-> NoExc, status_code |-> code, decodes |-> decodes, json |-> json]

Transports(S) ==
    { NetworkFailure(c) : c \in {"ConnectionError", "Timeout"} }
    \cup { HttpResponse(c, TRUE, JsonDict({"error"}, HwNone)) : c \in {333, 500} }
    \cup { HttpResponse(200, FALSE, JsonList) }
    \cup { HttpResponse(200, TRUE, j) : j \in JsonValues(S) }

(***************************************************************************)
(* The functions of homework.py.  A parameter d is the way the             *)
(* bot.send_message call made inside the function ends.                    *)
(***************************************************************************)
HOMEWORK_VERDICTS ==
    [approved  |-> "Rabota proverena: revyueru vse ponravilos. Ura!",
     reviewing |-> "Rabota vzyata na proverku revyuerom.",
     rejected  |-> "Rabota proverena: u revyuera est zamechaniya."]

\* The three secrets, each None (absent from the environment) or set.
TokenNames == {"PRACTICUM_TOKEN", "TELEGRAM_TOKEN", "TELEGRAM_CHAT_ID"}

Environments == [TokenNames -> {None, "secret"}]

\* A gate that closes only when every secret is absent.
check_tokens_all(env) ==
    IF /\ env["PRACTICUM_TOKEN"] = None
       /\ env["TELEGRAM_TOKEN"] = None
       /\ env["TELEGRAM_CHAT_ID"] = None
    THEN Outcome(NoExc, FALSE,
                 <<LogEv("critical",
                         "Otsutstvie obyazatelnykh peremennykh okruzheniya!")>>)
    ELSE Outcome(NoExc, TRUE, <<>>)

\* A gate that forgets the chat id.
check_tokens_two(env) ==
    IF \/ env["PRACTICUM_TOKEN"] = None
       \/ env["TELEGRAM_TOKEN"] = None
    THEN Outcome(NoExc, FALSE, <<>>)
    ELSE Outcome(NoExc, TRUE, <<>>)

check_tokens(env) ==
    IF \/ env["PRACTICUM_TOKEN"] = None
       \/ env["TELEGRAM_TOKEN"] = None
       \/ env["TELEGRAM_CHAT_ID"] = None
    THEN Outcome(NoExc, FALSE,
                 <<LogEv("critical",
                         "Otsutstvie obyazatelnykh peremennykh okruzheniya!")>>)
    ELSE Outcome(NoExc, TRUE, <<>>)

\* A clause that takes the client library's own errors only.
send_message_except_telegram == [is_class |-> TRUE, cls |-> "TelegramError"]

\* line 63: except Exception as e
send_message_except == [is_class |-> TRUE, cls |-> "Exception"]

\* send_message without its try statement.
send_message_unguarded(message, d) ==
    IF d = "ok"
    THEN Outcome(NoExc, None,
                 <<SendEv(message, d), LogEv("debug",
                     "Udachnaya otpravka soobshcheniya v Telegram: " \o message)>>)
    ELSE Outcome(Exc(d, "delivery failed"), None, <<SendEv(message, d)>>)

send_message(message, d) ==
    LET call == SendEv(message, d)
        e    == Exc(d, "delivery failed")
        m    == ExceptMatch(send_message_except, e)
    IN  IF d = "ok"
        THEN Outcome(NoExc, None,
                     <<call, LogEv("debug",
                         "Udachnaya otpravka soobshcheniya v Telegram: " \o message)>>)
        ELSE IF m = "match"
        THEN Outcome(NoExc, None,
                     <<call, LogEv("error",
                         "Oshibka pri otpravke soobshcheniya v Telegram: " \o e.msg)>>)
        ELSE IF m = "TypeError"
        THEN Outcome(CatchingNonClass, None, <<call>>)
        ELSE Outcome(e, None, <<call>>)

\* log_and_send_message that notifies without writing the log record.
log_and_send_message_no_log(message, d) ==
    LET s == send_message(message, d)
    IN  Outcome(s.raised, None, s.events)

\* log_and_send_message that writes the log record and does not notify.
log_and_send_message_log_only(message, d) ==
    Outcome(NoExc, None, <<LogEv("error", message)>>)

log_and_send_message(message, d) ==
    LET s == send_message(message, d)
    IN  Outcome(s.raised, None, <<LogEv("error", message)>> \o s.events)

\* "log_and_send_message(message); raise exc": exc is raised once the
\* notification call has returned.
NotifyThenRaise(message, d, exc, before) ==
    LET n == log_and_send_message(message, d)
    IN  Outcome(IF n.raised = NoExc THEN exc ELSE n.raised, None,
                before \o n.events)

\* The clause naming the class.
get_api_answer_except_class == [is_class |-> TRUE, cls |-> "RequestException"]

\* line 72: except requests.RequestException():  -- an instance, not a class
get_api_answer_except == [is_class |-> FALSE, cls |-> "RequestException"]

\* get_api_answer notifying about a bad status code itself.
get_api_answer_notifies(current_timestamp, t, d) ==
    LET get == <<GetEv(current_timestamp,
                       IF t.raised = NoExc THEN "response" ELSE t.raised.type)>>
        message == "Oshibka pri zaprose k API: " \o ToString(t.status_code)
    IN  IF t.raised # NoExc
        THEN Outcome(CatchingNonClass, None, get)
        ELSE IF t.status_code # 200
        THEN NotifyThenRaise(message, d, Exc("ApiRequestError", message), get)
        ELSE IF ~t.decodes
        THEN Outcome(Exc("JSONDecodeError", "Expecting value"), None, get)
        ELSE Outcome(NoExc, t.json, get)

\* t is what requests.get does.
get_api_answer(current_timestamp, t, d) ==
    LET get == <<GetEv(current_timestamp,
                       IF t.raised = NoExc THEN "response" ELSE t.raised.type)>>
        m   == ExceptMatch(get_api_answer_except, t.raised)
        message == "Oshibka pri zaprose k API: " \o ToString(t.status_code)
    IN  IF t.raised # NoExc
        THEN IF m = "TypeError" THEN Outcome(CatchingNonClass, None, get)
             ELSE IF m = "match"
             THEN NotifyThenRaise(
                      "Chto chto-to poshlo ne tak pri vypolnenii zaprosa :(",
                      d, Exc("ApiRequestError", ""), get)
             ELSE Outcome(t.raised, None, get)
        ELSE IF t.status_code # 200
        THEN Outcome(Exc("ApiRequestError", message), None,
                     get \o <<LogEv("error", message)>>)
        ELSE IF ~t.decodes
        THEN Outcome(Exc("JSONDecodeError", "Expecting value"), None, get)
        ELSE Outcome(NoExc, t.json, get)

\* check_response treating the empty list as a missing one.
check_response_empty_fails(response, d) ==
    IF response.type # "dict"
    THEN NotifyThenRaise("Poluchen spisok vmesto ozhidaemogo slovarya",
                         d, Exc("TypeError", ""), <<>>)
    ELSE IF GetHomeworks(response).type # "list"
            \/ GetHomeworks(response).items = <<>>
    THEN NotifyThenRaise("Spisok homeworks otsutstvuet v otvete",
                         d, Exc("TypeError", ""), <<>>)
    ELSE Outcome(NoExc, GetHomeworks(response), <<>>)

check_response(response, d) ==
    IF response.type # "dict"
    THEN NotifyThenRaise("Poluchen spisok vmesto ozhidaemogo slovarya",
                         d, Exc("TypeError", ""), <<>>)
    ELSE IF GetHomeworks(response).type # "list"
    THEN NotifyThenRaise("Spisok homeworks otsutstvuet v otvete",
                         d, Exc("TypeError", ""), <<>>)
    ELSE Outcome(NoExc, GetHomeworks(response),
                 IF GetHomeworks(response).items = <<>>
                 THEN <<LogEv("warning", "Spisok homeworks pust")>>
                 ELSE <<>>)

\* The message without the quotation marks around the name.
StatusMessage_unquoted(homework_name, verdict) ==
    "Izmenilsya status proverki raboty " \o homework_name \o ". " \o verdict

\* The f-string of line 116.
StatusMessage(homework_name, verdict) ==
    "Izmenilsya status proverki raboty \"" \o homework_name \o "\". " \o verdict

\* parse_status looking at the status before the name.
parse_status_status_first(homework, d) ==
    LET homework_name   == Get(homework, "homework_name")
        homework_status == Get(homework, "status")
        verdict         == Get(HOMEWORK_VERDICTS, homework_status)
    IN  IF verdict = None
        THEN NotifyThenRaise(
                 "Status proverki dlya raboty \"" \o homework_name
                     \o "\" neizvesten:",
                 d, Exc("ValueError", ""), <<>>)
        ELSE IF "homework_name" \notin DOMAIN homework
        THEN NotifyThenRaise(
                 "V otvete API domashki net klyucha \"homework_name\"",
                 d, Exc("KeyError", ""), <<>>)
        ELSE Outcome(NoExc, StatusMessage(homework_name, verdict), <<>>)

parse_status(homework, d) ==
    LET homework_name   == Get(homework, "homework_name")
        homework_status == Get(homework, "status")
        verdict         == Get(HOMEWORK_VERDICTS, homework_status)
    IN  IF "homework_name" \notin DOMAIN homework
        THEN NotifyThenRaise(
                 "V otvete API domashki net klyucha \"homework_name\"",
                 d, Exc("KeyError", ""), <<>>)
        ELSE IF verdict = None
        \* lines 112-113: the second f-string is a statement of its own, so
        \* the message ends at the colon
        THEN NotifyThenRaise(
                 "Status proverki dlya raboty \"" \o homework_name
                     \o "\" neizvesten:",
                 d, Exc("ValueError", ""), <<>>)
        ELSE Outcome(NoExc, StatusMessage(homework_name, verdict), <<>>)

(***************************************************************************)
(* main(): the state of one run and its steps.                             *)
(***************************************************************************)
VARIABLES
    tokens,             \* the module-level secrets (lines 15-17)
    pc,                 \* where main() is
    current_timestamp,  \* the cursor (line 123)
    response,           \* line 126
    homeworks,          \* line 128
    i,                  \* the position of "for hw in homeworks"
    error,              \* the exception the handler of line 132 caught
    events,             \* what the run did since its latest sleep began
    call                \* a single call of one function, and its outcome

vars == <<tokens, pc, current_timestamp, response, homeworks, i, error,
          events, call>>

\* int(time.time()) at startup.
StartTimes == {1000, 1000 + RETRY_PERIOD}

\* A call of function fn; the fields fn does not read keep a fixed value.
NoCall ==
    [fn |-> "", env |-> [n \in TokenNames |-> "secret"], message |-> "",
     homework |-> <<>>, response |-> JsonList, from_date |-> 0,
     transport |-> NetworkFailure("ConnectionError"), d |-> "ok",
     done |-> FALSE, out |-> Outcome(NoExc, None, <<>>)]

\* The messages main() hands to send_message.
Messages ==
    { StatusMessage(n, HOMEWORK_VERDICTS[s]) :
        n \in Names, s \in DOMAIN HOMEWORK_VERDICTS }

Calls ==
    { [NoCall EXCEPT !.fn = "check_tokens", !.env = e] : e \in Environments }
    \cup { [NoCall EXCEPT !.fn = "send_message", !.message = m, !.d = d] :
              m \in Messages, d \in SendOutcomes }
    \cup { [NoCall EXCEPT !.fn = "get_api_answer", !.from_date = ts,
                          !.transport = t, !.d = d] :
              ts \in StartTimes, t \in Transports(ApiHomeworks),
              d \in Deliveries }
    \cup { [NoCall EXCEPT !.fn = "check_response", !.response = r, !.d = d] :
              r \in JsonValues(Homeworks), d \in Deliveries }
    \cup { [NoCall EXCEPT !.fn = "parse_status", !.homework = hw, !.d = d] :
              hw \in Homeworks, d \in Deliveries }

Init ==
    /\ tokens \in Environments
    /\ pc = "start"
    /\ current_timestamp = 0
    /\ response = JsonList
    /\ homeworks = <<>>
    /\ i = 1
    /\ error = NoExc
    /\ events = <<>>
    /\ call = NoCall

\* A handler that takes the fetch error only.
main_except_api_only == [is_class |-> TRUE, cls |-> "ApiRequestError"]

\* line 132: except Exception as error
main_except == [is_class |-> TRUE, cls |-> "Exception"]

\* An exception arrives at the try statement of lines 125-135: the handler
\* takes it, or it leaves main().
Arrives(exc) ==
    LET m == ExceptMatch(main_except, exc)
    IN  /\ pc' = (IF m = "match" THEN "except" ELSE "raised")
        /\ error' = (IF m = "TypeError" THEN CatchingNonClass ELSE exc)

\* lines 121-123 and 137-138: the configuration gate.  Without the secrets
\* SystemExit() is constructed, not raised, and main() returns.
MainStart ==
    /\ pc = "start"
    /\ LET gate == check_tokens(tokens)
       IN  /\ events' = events \o gate.events
           /\ IF gate.value
              THEN /\ pc' = "fetch"
                   /\ current_timestamp' \in StartTimes
              ELSE /\ pc' = "returned"
                   /\ UNCHANGED current_timestamp
    /\ UNCHANGED <<tokens, response, homeworks, i, error, call>>

\* line 126
GetApiAnswer ==
    /\ pc = "fetch"
    /\ \E t \in Transports(ApiHomeworks), d \in Deliveries :
         LET out == get_api_answer(current_timestamp, t, d)
         IN  /\ events' = events \o out.events
             /\ IF out.raised = NoExc
                THEN /\ response' = out.value
                     /\ pc' = "check"
                     /\ UNCHANGED error
                ELSE /\ Arrives(out.raised)
                     /\ UNCHANGED response
    /\ UNCHANGED <<tokens, current_timestamp, homeworks, i, call>>

\* A loop that polls again at once when the records are done.
ForNext_no_sleep(k, n) == IF k >= n THEN "fetch" ELSE "for"

\* Where the for statement of line 129 goes once k records are done.
ForNext(k, n) == IF k >= n THEN "sleep" ELSE "for"

\* lines 127-128
CheckResponse ==
    /\ pc = "check"
    /\ \E d \in Deliveries :
         LET out == check_response(response, d)
         IN  /\ events' = events \o out.events
             /\ IF out.raised = NoExc
                THEN /\ homeworks' = response.homeworks.items
                     /\ i' = 1
                     /\ pc' = ForNext(0, Len(response.homeworks.items))
                     /\ UNCHANGED error
                ELSE /\ Arrives(out.raised)
                     /\ UNCHANGED <<homeworks, i>>
    /\ UNCHANGED <<tokens, current_timestamp, response, call>>

\* lines 129-131: one record
ForStep ==
    /\ pc = "for"
    /\ \E d1 \in Deliveries, d2 \in Deliveries :
         LET parsed == parse_status(homeworks[i], d1)
             sent   == send_message(parsed.value, d2)
         IN  IF parsed.raised # NoExc
             THEN /\ events' = events \o parsed.events
                  /\ Arrives(parsed.raised)
                  /\ UNCHANGED i
             ELSE /\ events' = events \o parsed.events \o sent.events
                  /\ IF sent.raised = NoExc
                     THEN /\ i' = i + 1
                          /\ pc' = ForNext(i, Len(homeworks))
                          /\ UNCHANGED error
                     ELSE /\ Arrives(sent.raised)
                          /\ UNCHANGED i
    /\ UNCHANGED <<tokens, current_timestamp, response, homeworks, call>>

\* The message without the error.
FailureMessage_bare(err) == "Sboi v rabote programmy"

\* The f-string of line 133.
FailureMessage(err) == "Sboi v rabote programmy: " \o err.msg

\* A handler inside the for statement: after a record parse_status rejected
\* the loop goes on with the next record.
Handler_resumes ==
    /\ pc = "except"
    /\ \E d \in Deliveries :
         LET message == FailureMessage(error)
             sent    == send_message(message, d)
         IN  /\ events' = events \o sent.events \o <<LogEv("error", message)>>
             /\ IF error \in {Exc("KeyError", ""), Exc("ValueError", "")}
                THEN /\ i' = i + 1
                     /\ pc' = ForNext(i, Len(homeworks))
                ELSE /\ pc' = "sleep"
                     /\ UNCHANGED i
    /\ UNCHANGED <<tokens, current_timestamp, response, homeworks, error, call>>

\* lines 132-135: an exception raised here has no handler around it
Handler ==
    /\ pc = "except"
    /\ \E d \in Deliveries :
         LET message == FailureMessage(error)
             sent    == send_message(message, d)
         IN  IF sent.raised = NoExc
             THEN /\ events' = events \o sent.events \o <<LogEv("error", message)>>
                  /\ pc' = "sleep"
             ELSE /\ events' = events \o sent.events
                  /\ pc' = "raised"
    /\ UNCHANGED <<tokens, current_timestamp, response, homeworks, i, error, call>>

\* line 136, and back to the top of "while True".  The locals of the
\* finished iteration are dead (each is assigned again before it is read), so
\* the model clears them; events starts again with this sleep.
Sleep ==
    /\ pc = "sleep"
    /\ events' = <<SleepEv(RETRY_PERIOD)>>
    /\ pc' = "fetch"
    /\ response' = JsonList
    /\ homeworks' = <<>>
    /\ i' = 1
    /\ error' = NoExc
    /\ UNCHANGED <<tokens, current_timestamp, call>>

Next ==
    \/ MainStart
    \/ GetApiAnswer
    \/ CheckResponse
    \/ ForStep
    \/ Handler
    \/ Sleep

Spec == Init /\ [][Next]_vars

\* The run is one sequential thread that keeps running; every step but the
\* HTTP request (which has no timeout) ends.
FairSpec ==
    /\ Spec
    /\ WF_vars(MainStart)
    /\ WF_vars(CheckResponse)
    /\ WF_vars(ForStep)
    /\ WF_vars(Handler)
    /\ WF_vars(Sleep)

(***************************************************************************)
(* The functions on their own: one call of one function on an input of     *)
(* the bounded sets above.                                                 *)
(***************************************************************************)
FnInit ==
    /\ tokens = NoCall.env
    /\ pc = "call"
    /\ current_timestamp = 0
    /\ response = JsonList
    /\ homeworks = <<>>
    /\ i = 1
    /\ error = NoExc
    /\ events = <<>>
    /\ call \in Calls

Returns(out) ==
    /\ pc' = "called"
    /\ call' = [call EXCEPT !.done = TRUE, !.out = out]
    /\ UNCHANGED <<tokens, current_timestamp, response, homeworks, i, error,
                   events>>

CallCheckTokens ==
    /\ pc = "call" /\ call.fn = "check_tokens"
    /\ Returns(check_tokens(call.env))

CallSendMessage ==
    /\ pc = "call" /\ call.fn = "send_message"
    /\ Returns(send_message(call.message, call.d))

CallGetApiAnswer ==
    /\ pc = "call" /\ call.fn = "get_api_answer"
    /\ Returns(get_api_answer(call.from_date, call.transport, call.d))

CallCheckResponse ==
    /\ pc = "call" /\ call.fn = "check_response"
    /\ Returns(check_response(call.response, call.d))

CallParseStatus ==
    /\ pc = "call" /\ call.fn = "parse_status"
    /\ Returns(parse_status(call.homework, call.d))

FnNext ==
    \/ CallCheckTokens
    \/ CallSendMessage
    \/ CallGetApiAnswer
    \/ CallCheckResponse
    \/ CallParseStatus

FnSpec == FnInit /\ [][FnNext]_vars

(***************************************************************************)
(* Properties.                                                             *)
(***************************************************************************)
\* The positions of main() inside "while True".
LoopPcs == {"fetch", "check", "for", "except", "sleep"}

\* The indices of the notification attempts in a sequence of events.
SendsIn(evs) == { k \in DOMAIN evs : evs[k].ev = "send" }

\* requests.get raised in the current iteration.
NetworkFailed ==
    \E k \in DOMAIN events :
        events[k].ev = "get" /\ events[k].result \in {"ConnectionError", "Timeout"}

\* C1: once main() is in the poll loop, an exception raised by
\* get_api_answer, check_response or parse_status is taken by the handler of
\* main(): main() never raises, never leaves the loop, and from the handler
\* it always comes back to the fetch of a later iteration.
C1_ErrorsNeverEndTheLoop ==
    /\ [](pc # "raised")
    /\ [](error # NoExc => pc \in {"except", "sleep"})
    /\ [][(pc \in LoopPcs) => (pc' \in LoopPcs)]_vars
    /\ (pc = "except") ~> (pc = "fetch")

\* An iteration whose second record made parse_status raise was handled and
\* is about to sleep.
C1_Witness ==
    /\ pc = "sleep"
    /\ error.type = "KeyError"
    /\ i = 2

\* C2: an iteration in which requests.get raised makes exactly one
\* notification attempt (none before the handler, one from it), the exception
\* does not leave main(), and the loop goes on to the next fetch.
C2_NetworkFailureOneNotification ==
    /\ [](NetworkFailed => pc \in {"except", "sleep"})
    /\ [](NetworkFailed /\ pc = "except" => SendsIn(events) = {})
    /\ [](NetworkFailed /\ pc = "sleep" => Cardinality(SendsIn(events)) = 1)
    /\ (NetworkFailed /\ pc = "except") ~> (pc = "fetch" /\ ~NetworkFailed)

C2_Witness ==
    /\ NetworkFailed
    /\ pc = "sleep"
    /\ Cardinality(SendsIn(events)) = 1

\* C3: in a run where one of the three secrets is absent, main() only starts
\* and returns: it never fetches, never notifies and never sleeps.
C3_NoLoopWithoutTokens ==
    (\E n \in TokenNames : tokens[n] = None) =>
        /\ pc \in {"start", "returned"}
        /\ \A k \in DOMAIN events : events[k].ev \notin {"get", "send", "sleep"}

\* main() has returned in a run where only the chat id is absent.
C3_Witness ==
    /\ pc = "returned"
    /\ tokens["TELEGRAM_CHAT_ID"] = None
    /\ tokens["PRACTICUM_TOKEN"] # None
    /\ tokens["TELEGRAM_TOKEN"] # None

\* C4: a call of send_message returns normally however bot.send_message
\* ends; the one call of bot.send_message it makes is its only attempt.
C4_SendMessageNeverRaises ==
    (call.fn = "send_message" /\ call.done) =>
        /\ call.out.raised = NoExc
        /\ Cardinality(SendsIn(call.out.events)) = 1

\* send_message has returned from a call in which bot.send_message raised an
\* exception that is not of the client library.
C4_Witness ==
    /\ call.fn = "send_message"
    /\ call.done
    /\ call.d = "ValueError"
    /\ \E k \in DOMAIN call.out.events :
          call.out.events[k] = SendEv(call.message, "ValueError")

\* A delivery failed in the current iteration.
DeliveryFailed ==
    \E k \in SendsIn(events) : events[k].result # "ok"

\* The record the for statement is at is one parse_status accepts.
AtValidRecord ==
    /\ pc = "for"
    /\ "homework_name" \in DOMAIN homeworks[i]
    /\ Get(homeworks[i], "status") \in DOMAIN HOMEWORK_VERDICTS

Diagnostics ==
    {"Poluchen spisok vmesto ozhidaemogo slovarya",
     "Spisok homeworks otsutstvuet v otvete",
     "V otvete API domashki net klyucha \"homework_name\""}
    \cup { "Status proverki dlya raboty \"" \o n \o "\" neizvesten:" : n \in Names }

\* C6: when an iteration that caught an exception is about to sleep, a
\* notification attempt with the failure message of that exception has been
\* made, and either the exception has a text of its own, which that message
\* carries, or the failing function sent its specific diagnostic before; an
\* iteration that caught nothing made no attempt but the status messages,
\* however their deliveries ended.
C6_HandledErrorsAreNotified ==
    /\ (pc = "sleep" /\ error # NoExc) =>
          \E k \in SendsIn(events) :
             /\ events[k].text = "Sboi v rabote programmy: " \o error.msg
             /\ \/ error.msg # ""
                \/ \E l \in SendsIn(events) :
                      l < k /\ events[l].text \in Diagnostics
    /\ (pc = "sleep" /\ error = NoExc) =>
          \A k \in SendsIn(events) : events[k].text \in Messages

\* A non-200 answer was caught and notified with its status code, although
\* that delivery failed.
C6_Witness ==
    /\ pc = "sleep"
    /\ error.type = "ApiRequestError"
    /\ \E k \in SendsIn(events) :
          /\ events[k].text = "Sboi v rabote programmy: Oshibka pri zaprose k API: 333"
          /\ events[k].result # "ok"

\* C7 as claimed: get_api_answer raises ApiRequestError when requests.get
\* raises and when the status code is not 200.
C7_FetchFailsWithApiRequestError ==
    (/\ call.fn = "get_api_answer"
     /\ call.done
     /\ \/ call.transport.raised # NoExc
        \/ call.transport.status_code # 200) =>
        call.out.raised.type = "ApiRequestError"

\* C8: check_response returns the list under 'homeworks' as it is when the
\* response is a dict that holds a list there, and raises TypeError otherwise.
C8_CheckResponse ==
    (call.fn = "check_response" /\ call.done) =>
        IF /\ call.response.type = "dict"
           /\ "homeworks" \in call.response.keys
           /\ call.response.homeworks.type = "list"
        THEN /\ call.out.raised = NoExc
             /\ call.out.value.type = "list"
             /\ call.out.value.items = call.response.homeworks.items
        ELSE call.out.raised.type = "TypeError"

\* check_response has returned the empty list.
C8_Witness ==
    /\ call.fn = "check_response"
    /\ call.done
    /\ call.response = JsonDict({"homeworks"}, HwList(<<>>))
    /\ call.out.raised = NoExc
    /\ call.out.value.items = <<>>

\* C9: parse_status raises KeyError when the record has no 'homework_name',
\* whatever its status, and ValueError when it has the name and its status is
\* absent or none of approved, reviewing, rejected.
C9_ParseStatusFailures ==
    (call.fn = "parse_status" /\ call.done) =>
        /\ "homework_name" \notin DOMAIN call.homework =>
              call.out.raised.type = "KeyError"
        /\ (/\ "homework_name" \in DOMAIN call.homework
            /\ \/ "status" \notin DOMAIN call.homework
               \/ Get(call.homework, "status")
                     \notin {"approved", "reviewing", "rejected"}) =>
              call.out.raised.type = "ValueError"

\* parse_status has raised KeyError on a record with neither a name nor a
\* known status.
C9_Witness ==
    /\ call.fn = "parse_status"
    /\ call.done
    /\ "homework_name" \notin DOMAIN call.homework
    /\ Get(call.homework, "status") = "test"
    /\ call.out.raised.type = "KeyError"

\* C10: on a record with name n and a status s of approved, reviewing,
\* rejected parse_status returns the fixed sentence with n in quotation marks
\* and the verdict text of s, whatever else the record holds and however the
\* call was reached; the three verdict texts differ.
C10_ParseStatusMessage ==
    /\ Cardinality({ HOMEWORK_VERDICTS[s] : s \in DOMAIN HOMEWORK_VERDICTS }) = 3
    /\ DOMAIN HOMEWORK_VERDICTS = {"approved", "reviewing", "rejected"}
    /\ (/\ call.fn = "parse_status"
        /\ call.done
        /\ "homework_name" \in DOMAIN call.homework
        /\ Get(call.homework, "status") \in {"approved", "reviewing", "rejected"}) =>
          /\ call.out.raised = NoExc
          /\ call.out.events = <<>>
          /\ call.out.value =
                "Izmenilsya status proverki raboty \""
                    \o call.homework["homework_name"] \o "\". "
                    \o HOMEWORK_VERDICTS[call.homework["status"]]

\* parse_status has returned the message of spec 8.3 for a record that
\* holds one more key.
C10_Witness ==
    /\ call.fn = "parse_status"
    /\ call.done
    /\ DOMAIN call.homework = {"homework_name", "status", "id"}
    /\ call.out.value =
          "Izmenilsya status proverki raboty \"X\". Rabota proverena: revyueru vse ponravilos. Ura!"


\* C11: check_tokens returns True exactly when all three secrets are
\* present, for each of the 8 combinations; it raises nothing, touches
\* nothing outside the log, and leaves the secrets as they were.
C11_CheckTokens ==
    (call.fn = "check_tokens" /\ call.done) =>
        /\ call.out.raised = NoExc
        /\ call.out.value = (\A n \in TokenNames : call.env[n] # None)
        /\ \A k \in DOMAIN call.out.events : call.out.events[k].ev = "log"
        /\ call.env \in Environments
        /\ tokens = NoCall.env

\* check_tokens has returned False with only the API token absent.
C11_Witness ==
    /\ call.fn = "check_tokens"
    /\ call.done
    /\ call.env["PRACTICUM_TOKEN"] = None
    /\ call.env["TELEGRAM_TOKEN"] # None
    /\ call.env["TELEGRAM_CHAT_ID"] # None
    /\ call.out.value = FALSE


\* A completed call of get_api_answer in which requests.get raised or
\* answered with a status code other than 200.
FetchFailed ==
    /\ call.fn = "get_api_answer"
    /\ call.done
    /\ \/ call.transport.raised # NoExc
       \/ call.transport.status_code # 200

\* C12 as claimed: on either kind of fetch failure get_api_answer has made a
\* notification attempt by the time it raises.
C12_FetchNotifiesBeforeRaising ==
    FetchFailed => SendsIn(call.out.events) # {}

\* C12, amended: on either kind of fetch failure get_api_answer raises
\* without a notification attempt of its own; for a status code other than
\* 200 the last thing it does before raising ApiRequestError(message) is to
\* log that message as an error.
C12_FetchRaisesWithoutNotifying ==
    FetchFailed =>
        /\ call.out.raised # NoExc
        /\ SendsIn(call.out.events) = {}
        /\ call.transport.raised = NoExc =>
              /\ call.out.raised.type = "ApiRequestError"
              /\ call.out.events[Len(call.out.events)]
                    = LogEv("error", call.out.raised.msg)
              /\ call.out.raised.msg
                    = "Oshibka pri zaprose k API: "
                          \o ToString(call.transport.status_code)

\* get_api_answer has raised on status code 333 having logged the message.
C12_Witness ==
    /\ FetchFailed
    /\ call.transport.status_code = 333
    /\ call.out.raised = Exc("ApiRequestError", "Oshibka pri zaprose k API: 333")
    /\ call.out.events[2] = LogEv("error", "Oshibka pri zaprose k API: 333")


\* C13: when check_response raises, it has first written one error record
\* to the log and then made one notification attempt with the same text, the
\* text of the failure at hand; this holds however the delivery ended.
C13_CheckResponseFailuresNotify ==
    (call.fn = "check_response" /\ call.done /\ call.out.raised # NoExc) =>
        /\ Len(call.out.events) >= 2
        /\ call.out.events[1].ev = "log"
        /\ call.out.events[1].level = "error"
        /\ call.out.events[2] = SendEv(call.out.events[1].text, call.d)
        /\ Cardinality(SendsIn(call.out.events)) = 1
        /\ call.out.events[1].text =
              (IF call.response.type # "dict"
               THEN "Poluchen spisok vmesto ozhidaemogo slovarya"
               ELSE "Spisok homeworks otsutstvuet v otvete")

\* check_response has raised on {'homeworks': 1} after a notification
\* attempt that failed.
C13_Witness ==
    /\ call.fn = "check_response"
    /\ call.done
    /\ call.response = JsonDict({"homeworks"}, HwInt)
    /\ call.d = "NetworkError"
    /\ call.out.raised.type = "TypeError"
    /\ call.out.events[2] = SendEv("Spisok homeworks otsutstvuet v otvete", "NetworkError")


\* The indices of the requests in a sequence of events.
GetsIn(evs) == { k \in DOMAIN evs : evs[k].ev = "get" }

\* C14: fetches and sleeps alternate, beginning with a fetch.  Since its
\* latest sleep (or since its start) the run has made at most one request;
\* every sleep is one call of time.sleep(RETRY_PERIOD); main() comes back to
\* the fetch only by a sleep, and sleeps only after a request made since the
\* sleep before; the handler is always followed by the sleep, and every
\* iteration that has made its request reaches the sleep.
C14_OneSleepBetweenFetches ==
    /\ [](Cardinality(GetsIn(events)) <= 1)
    /\ [](\A k \in DOMAIN events :
             events[k].ev = "sleep" => k = 1 /\ events[k].n = RETRY_PERIOD)
    /\ [][(pc' = "fetch" /\ pc # "start") =>
             /\ pc = "sleep"
             /\ GetsIn(events) # {}
             /\ events' = <<SleepEv(RETRY_PERIOD)>>]_vars
    /\ [][(pc = "fetch" /\ pc' # "fetch") =>
             /\ events \in {<<>>, <<SleepEv(RETRY_PERIOD)>>}
             /\ Cardinality(GetsIn(events')) = 1]_vars
    /\ [][(pc = "except") => (pc' = "sleep")]_vars
    /\ (pc \in {"check", "for", "except"}) ~> (pc = "sleep")

\* A later iteration has made its request, one sleep after the request
\* before it.
C14_Witness ==
    /\ pc = "check"
    /\ Len(events) >= 2
    /\ events[1] = SleepEv(RETRY_PERIOD)
    /\ events[2].ev = "get"


\* C15: the cursor is set once, when main() starts the loop, and no step of
\* the loop changes it, whatever was fetched and however the iteration
\* ended; every request carries it as from_date.
C15_CursorNeverChanges ==
    /\ [](pc \in LoopPcs => current_timestamp \in StartTimes)
    /\ [](\A k \in GetsIn(events) : events[k].n = current_timestamp)
    /\ [][(pc # "start") => (current_timestamp' = current_timestamp)]_vars

\* A later iteration, started at the later of the two times, has sent its
\* request with the cursor of the start and got records back.
C15_Witness ==
    /\ pc = "for"
    /\ current_timestamp = 1000 + RETRY_PERIOD
    /\ Len(homeworks) = 2
    /\ events[1] = SleepEv(RETRY_PERIOD)
    /\ events[2] = GetEv(1000 + RETRY_PERIOD, "response")


\* The fetched response is a dict whose 'homeworks' is the empty list.
EmptyHomeworks == response = JsonDict({"homeworks"}, HwList(<<>>))

\* C16: an empty 'homeworks' list is no error.  From the check of such a
\* response main() goes straight to the sleep: check_response only logs a
\* warning, nothing is raised, the handler is not entered and the iteration
\* makes no notification attempt.
C16_EmptyListIsNotAnError ==
    /\ [][(pc = "check" /\ EmptyHomeworks) =>
             /\ pc' = "sleep"
             /\ error' = NoExc
             /\ homeworks' = <<>>
             /\ events' = Append(events, LogEv("warning", "Spisok homeworks pust"))]_vars
    /\ [](EmptyHomeworks =>
             /\ pc \in {"check", "sleep"}
             /\ error = NoExc
             /\ SendsIn(events) = {})

\* An iteration that fetched the empty list is about to sleep.
C16_Witness ==
    /\ pc = "sleep"
    /\ EmptyHomeworks
    /\ error = NoExc
    /\ SendsIn(events) = {}


\* What a call c of one of the three failing functions does.
Apply(c) ==
    CASE c.fn = "get_api_answer" -> get_api_answer(c.from_date, c.transport, c.d)
      [] c.fn = "check_response" -> check_response(c.response, c.d)
      [] OTHER                   -> parse_status(c.homework, c.d)

\* The six failure causes, and the one a call c has ("" when it has none of
\* them).
Causes ==
    {"network", "status code", "not a mapping", "homeworks", "homework_name",
     "status"}

CauseOf(c) ==
    CASE c.fn = "get_api_answer" /\ c.transport.raised # NoExc -> "network"
      [] c.fn = "get_api_answer" /\ c.transport.raised = NoExc
             /\ c.transport.status_code # 200 -> "status code"
      [] c.fn = "check_response" /\ c.response.type # "dict" -> "not a mapping"
      [] c.fn = "check_response" /\ c.response.type = "dict"
             /\ GetHomeworks(c.response).type # "list" -> "homeworks"
      [] c.fn = "parse_status" /\ "homework_name" \notin DOMAIN c.homework
             -> "homework_name"
      [] c.fn = "parse_status" /\ "homework_name" \in DOMAIN c.homework
             /\ Get(c.homework, "status") \notin DOMAIN HOMEWORK_VERDICTS
             -> "status"
      [] OTHER -> ""

\* One call for each cause.
CauseSamples ==
    { [NoCall EXCEPT !.fn = "get_api_answer",
                     !.transport = NetworkFailure("ConnectionError")],
      [NoCall EXCEPT !.fn = "get_api_answer",
                     !.transport = HttpResponse(333, TRUE, JsonDict({"error"}, HwNone))],
      [NoCall EXCEPT !.fn = "check_response", !.response = JsonList],
      [NoCall EXCEPT !.fn = "check_response",
                     !.response = JsonDict({"homeworks"}, HwInt)],
      [NoCall EXCEPT !.fn = "parse_status", !.homework = [status |-> "approved"]],
      [NoCall EXCEPT !.fn = "parse_status",
                     !.homework = [homework_name |-> "X", status |-> "test"]] }

\* The completed call failed by one of the six causes.
FailedByCause == call.done /\ CauseOf(call) \in Causes

\* C17 as claimed: the kind a failure arrives with differs from the kind of
\* every failure of another cause.
C17_KindsPairwiseDistinct ==
    FailedByCause =>
        \A c \in CauseSamples :
            CauseOf(c) # CauseOf(call) =>
                Apply(c).raised.type # call.out.raised.type

\* The causes whose kind no other cause shares.
DistinctCauses == {"status code", "homework_name", "status"}

\* C17, amended: the six causes arrive as four kinds.  A bad status code
\* arrives as ApiRequestError, a missing 'homework_name' as KeyError and an
\* unknown status as ValueError, and each of these three differs from the
\* kind of every other cause; a response that is not a mapping, a missing or
\* wrongly typed 'homeworks' and a network failure all arrive as TypeError.
C17_FourKinds ==
    FailedByCause =>
        /\ call.out.raised.type =
              (CASE CauseOf(call) = "status code"   -> "ApiRequestError"
                 [] CauseOf(call) = "homework_name" -> "KeyError"
                 [] CauseOf(call) = "status"        -> "ValueError"
                 [] OTHER                           -> "TypeError")
        /\ \A c \in CauseSamples :
              (/\ CauseOf(c) # CauseOf(call)
               /\ \/ CauseOf(c) \in DistinctCauses
                  \/ CauseOf(call) \in DistinctCauses) =>
                  Apply(c).raised.type # call.out.raised.type
        /\ \A c \in CauseSamples :
              (CauseOf(c) \notin DistinctCauses
                  /\ CauseOf(call) \notin DistinctCauses) =>
                  Apply(c).raised.type = call.out.raised.type

\* check_response has raised on a dict without a usable 'homeworks', with
\* the kind a response that is not a dict gets.
C17_Witness ==
    /\ FailedByCause
    /\ CauseOf(call) = "homeworks"
    /\ call.out.raised.type = "TypeError"
    /\ Apply([NoCall EXCEPT !.fn = "check_response", !.response = JsonList])
          .raised.type = "TypeError"


\* The notification attempts of a sequence of events, in order.
RECURSIVE SendTexts(_)
SendTexts(evs) ==
    IF evs = <<>> THEN <<>>
    ELSE IF Head(evs).ev = "send"
    THEN <<Head(evs).text>> \o SendTexts(Tail(evs))
    ELSE SendTexts(Tail(evs))

\* The last n elements of a sequence.
LastOf(s, n) == SubSeq(s, Len(s) - n + 1, Len(s))

\* The specific diagnostics an error of the given kind may come with.
DiagnosticsOf(type) ==
    CASE type = "TypeError" ->
            {"Poluchen spisok vmesto ozhidaemogo slovarya",
             "Spisok homeworks otsutstvuet v otvete"}
      [] type = "KeyError" ->
            {"V otvete API domashki net klyucha \"homework_name\""}
      [] OTHER ->
            { "Status proverki dlya raboty \"" \o n \o "\" neizvesten:" : n \in Names }

\* C18: when an iteration in which check_response or parse_status raised is
\* about to sleep, that one error has had exactly two notification attempts,
\* the last two of the iteration: first the specific diagnostic of the failing
\* function, then the generic failure message of the handler, which carries
\* an empty error text; the attempts before them are the status messages of
\* the records already done.  An iteration that failed on a status code other
\* than 200 has had exactly one attempt, the generic message with the text
\* of the error.
C18_TwoNotificationsPerValidationError ==
    /\ (/\ pc = "sleep"
        /\ error \in {Exc("TypeError", ""), Exc("KeyError", ""), Exc("ValueError", "")}) =>
          LET texts == SendTexts(events)
          IN  /\ Len(texts) = (i - 1) + 2
              /\ texts[Len(texts) - 1] \in DiagnosticsOf(error.type)
              /\ texts[Len(texts)] = "Sboi v rabote programmy: "
              /\ \A k \in 1..(i - 1) : texts[k] \in Messages
    /\ (pc = "sleep" /\ error.type = "ApiRequestError") =>
          /\ error.msg \in {"Oshibka pri zaprose k API: 333",
                            "Oshibka pri zaprose k API: 500"}
          /\ SendTexts(events) = <<"Sboi v rabote programmy: " \o error.msg>>

\* The second record had no name: after the status message of the first
\* record, the diagnostic and the generic message were attempted, in this
\* order, and the iteration is about to sleep.
C18_Witness ==
    /\ pc = "sleep"
    /\ error = Exc("KeyError", "")
    /\ i = 2
    /\ LastOf(SendTexts(events), 2) =
          <<"V otvete API domashki net klyucha \"homework_name\"",
            "Sboi v rabote programmy: ">>


\* A record parse_status turns into a status message.
Valid(hw) ==
    /\ "homework_name" \in DOMAIN hw
    /\ Get(hw, "status") \in DOMAIN HOMEWORK_VERDICTS

\* The status notifications attempted, in order.
StatusSends(evs) == SelectSeq(SendTexts(evs), LAMBDA t : t \in Messages)

\* The status messages of the first n records of a list.
StatusOf(hws, n) ==
    [k \in 1..n |-> StatusMessage(hws[k].homework_name,
                                  HOMEWORK_VERDICTS[hws[k].status])]

\* parse_status raised in the current iteration.
ParseFailed ==
    /\ pc \in {"except", "sleep"}
    /\ error \in {Exc("KeyError", ""), Exc("ValueError", "")}

\* The records before position i (counted from 1) are done: each was valid
\* and had its one status notification, in list order, and no other record
\* had one.
C19_DoneInOrder ==
    /\ i \in 1..(Len(homeworks) + 1)
    /\ \A k \in 1..(i - 1) : Valid(homeworks[k])
    /\ StatusSends(events) = StatusOf(homeworks, i - 1)
    /\ (pc = "for") => i <= Len(homeworks)
    /\ (pc = "sleep" /\ error = NoExc) => i = Len(homeworks) + 1
    /\ ParseFailed => (i <= Len(homeworks) /\ ~Valid(homeworks[i]))

\* After the failure of parse_status nothing but the handler and the sleep
\* happens: the for statement is not entered again and no status
\* notification is added; the sleep ends the iteration, and the step after
\* it is a new request.
C19_FailureEndsTheIteration ==
    /\ ParseFailed =>
          /\ pc' = (IF pc = "except" THEN "sleep" ELSE "fetch")
          /\ (pc' = "sleep") =>
                /\ i' = i
                /\ homeworks' = homeworks
                /\ StatusSends(events') = StatusSends(events)
          /\ (pc' = "fetch") => (GetsIn(events') = {} /\ SendsIn(events') = {})
    /\ (pc = "fetch") =>
          /\ Len(events') > Len(events)
          /\ events'[Len(events) + 1].ev = "get"
          /\ pc' # "for"

\* C19: within one iteration the records are processed in list order and the
\* first record parse_status rejects ends the iteration: when record i is the
\* first invalid one, the records before it have had one status notification
\* each, in order, neither record i nor any later record gets one (valid or
\* not), and after the sleep the run starts again from a new request.
C19_FirstInvalidRecordAbortsTheRest ==
    []C19_DoneInOrder /\ [][C19_FailureEndsTheIteration]_vars

\* The first of two records has no name and the second is valid: the
\* iteration is about to sleep, and no status notification was attempted.
C19_Witness ==
    /\ pc = "sleep"
    /\ error = Exc("KeyError", "")
    /\ i = 1
    /\ Len(homeworks) = 2
    /\ Valid(homeworks[2])
    /\ StatusSends(events) = <<>>

=============================================================================
